---- MODULE Spec2Model ----
(***************************************************************************)
(* Model of go-upload-server (cmd/msrv): the request pipeline built by     *)
(* newServer (tracing -> logging -> router -> healthz / upload / not       *)
(* found), the process-wide health gate, the upload handler's              *)
(* parse / extract / create / copy sequence on a shared directory, and the *)
(* lifecycle of run (background listener task, interrupt, bounded          *)
(* graceful shutdown).                                                     *)
(***************************************************************************)
EXTENDS Integers, Sequences, FiniteSets, TLC

(* ------------------------------ bounds -------------------------------- *)

\* number of requests (one connection each) the clients send in one execution
MaxReq == 2

\* longest uploaded payload, in bytes
MaxLen == 2

\* how far the wall clock may advance past ClockBase while ids are generated
MaxTicks == 1

\* how many interrupts the operator sends
MaxSignals == 2

(* ----------------------- configuration and inputs --------------------- *)

Req == 1..MaxReq

\* time.Now().UnixNano() when the process starts (scaled down)
ClockBase == 9

\* bytes io.Copy moves per Write call (its buffer, scaled down)
CopyBufSize == 1

HealthPath == "/healthz"

\* config.uploadEndpoint
UploadEndpoint == "/upload"

\* request paths: the two registered ones, the root, and one that is not clean
Paths == {HealthPath, UploadEndpoint, "/", "//healthz"}

Methods == {"GET", "POST"}

\* file names a client may put in the form (handler.Filename)
Files == {"a.txt", "b.txt"}

\* what the request body is: not multipart, multipart without the
\* configured field, multipart with the configured field
Forms == {"malformed", "nofield", "file"}

\* inbound X-Request-Id values: absent/empty, or supplied
HeaderValues == {<< >>, <<1, 0>>}

\* the payload request r uploads when it is n bytes long: every byte differs
\* from every byte of another request's payload and from its neighbours
Payload(r, n) == [i \in 1..n |-> 10 * r + i]

StatusOK == 200
StatusMovedPermanently == 301
StatusBadRequest == 400
StatusNotFound == 404
StatusMethodNotAllowed == 405
StatusInternalServerError == 500
StatusServiceUnavailable == 503

None == "none"

\* the literal "unknown" the logging middleware falls back to; no decimal
\* string equals it
Unknown == <<-1>>

\* a file that does not exist
NoFile == [exists |-> FALSE, data |-> << >>]

VARIABLES
    mainPc,       \* where run's main path is
    lsPc,         \* where the background listener task is
    sigCount,     \* interrupts delivered to the process so far
    healthy,      \* the int32 health gate
    now,          \* the wall clock
    fs,           \* the configured directory: file name -> file
    req,          \* per request: position in the pipeline, inputs, response
    logLines,     \* lifecycle lines written to the logger
    stderrLines,  \* lines written to os.Stderr
    shutdownErr   \* what httpServer.Shutdown returned

vars == <<mainPc, lsPc, sigCount, healthy, now, fs, req, logLines,
          stderrLines, shutdownErr>>

(* ------------------------------ helpers ------------------------------- *)

Min(a, b) == IF a < b THEN a ELSE b

\* fmt.Sprintf("%d", n) for n >= 0: the decimal digits of n
RECURSIVE FormatInt(_)
FormatInt(n) == IF n < 10 THEN <<n>> ELSE Append(FormatInt(n \div 10), n % 10)

defaultRequestIDFunc(t) == FormatInt(t)

\* as RequestID, but the inbound header is never adopted
RequestIDAlwaysNew(h, t) == defaultRequestIDFunc(t)

\* NewTracingMiddleware: the id of a request whose inbound X-Request-Id is h,
\* handled when the clock reads t (main passes a nil RequestIDFunc)
RequestID(h, t) == IF Len(h) = 0 THEN defaultRequestIDFunc(t) ELSE h

\* as MethodAllowed, but with the method check left out
AnyMethodAllowed(m) == TRUE

\* upload: the method check
MethodAllowed(m) == m = "POST"

\* as FormFileFound, but the error of r.FormFile is ignored
FormFileAlwaysFound(b) == TRUE

\* upload: r.FormFile finds the configured field in a parsed form b
FormFileFound(b) == b = "file"

\* as os.Create, but opening without O_TRUNC: old content stays
CreateNoTrunc(dir, f) == [dir EXCEPT ![f] = [exists |-> TRUE, data |-> @.data]]

\* os.Create: O_CREATE|O_TRUNC, the file exists and is empty afterwards
Create(dir, f) == [dir EXCEPT ![f] = [exists |-> TRUE, data |-> << >>]]

\* a Write of bytes b through a descriptor whose offset is off; a gap left by
\* a truncation under the descriptor reads as zero bytes
WriteAt(data, off, b) ==
    LET end == off + Len(b)
        n == IF Len(data) > end THEN Len(data) ELSE end
    IN [i \in 1..n |-> IF i > off /\ i <= end THEN b[i - off]
                       ELSE IF i <= Len(data) THEN data[i]
                       ELSE 0]

\* the bytes of payload p that one Write of io.Copy moves, starting after off
Chunk(p, off) == SubSeq(p, off + 1, Min(off + CopyBufSize, Len(p)))

\* as ShuttingDown, but Shutdown leaves the server's flag unset
ShuttingDownUnset == FALSE

\* http.Server.shuttingDown(): Shutdown has been called
ShuttingDown == mainPc \in {"draining", "stopped"}

\* the process is gone once main has returned
Exited == mainPc = "stopped"

\* a request being handled: its connection is in StateActive
InFlight(r) == req[r].pc \notin {"idle", "done"}

\* as Chain, but with the two wrapping statements of newServer swapped
ChainLoggingFirst == <<"logging", "tracing">>

\* newServer: the middlewares around the router, outermost first
Chain == <<"tracing", "logging">>

\* the stage a request enters after middleware m has called next.ServeHTTP
NextStage(m) ==
    LET i == CHOOSE j \in 1..Len(Chain) : Chain[j] = m
    IN IF i = Len(Chain) THEN "mux" ELSE Chain[i + 1]

\* the stage in which middleware m runs what it does after next.ServeHTTP
\* has returned
ExitPc(m) == IF m = "logging" THEN "logexit" ELSE "traceexit"

\* the stage a request enters when the router's handler returns: the exit of
\* the innermost middleware
HandlerReturn == ExitPc(Chain[Len(Chain)])

\* the stage a request enters when middleware m returns: the exit of the
\* middleware around it, or the server's own completion for the outermost
AfterExit(m) ==
    LET i == CHOOSE j \in 1..Len(Chain) : Chain[j] = m
    IN IF i = 1 THEN "finish" ELSE ExitPc(Chain[i - 1])

\* the stages after the router's handler has returned
Returned == {"logexit", "traceexit", "finish", "done"}

\* as WithContext, but the request is passed on unchanged
WithoutContext(id) == [has |-> FALSE, id |-> << >>]

\* NewTracingMiddleware: the context of the request passed to next carries
\* the id under requestIDKey
WithContext(id) == [has |-> TRUE, id |-> id]

\* ServeMux: the path the router matches on (path.Clean of the request path)
CleanPath(p) == IF p = "//healthz" THEN HealthPath ELSE p

\* as RouteOf, but with the health handler registered on the root pattern
RouteOfRootHealth(p) ==
    IF CleanPath(p) # p THEN "redirect"
    ELSE IF p = HealthPath \/ p = "/" THEN "healthz"
    ELSE IF p = UploadEndpoint THEN "upload"
    ELSE "notfound"

\* addRoutes and ServeMux dispatch: the handler a request path reaches
RouteOf(p) ==
    IF CleanPath(p) # p THEN "redirect"
    ELSE IF p = HealthPath THEN "healthz"
    ELSE IF p = UploadEndpoint THEN "upload"
    ELSE "notfound"

IdleReq == [pc |-> "idle", path |-> None, method |-> None, hdrIn |-> << >>,
            hasCtx |-> FALSE, ctxId |-> << >>,
            hasRespId |-> FALSE, respId |-> << >>,
            logHasCtx |-> FALSE, logCtxId |-> << >>,
            logged |-> 0, logId |-> << >>,
            status |-> 0, body |-> << >>,
            form |-> None, fname |-> None, len |-> 0, off |-> 0,
            overlap |-> FALSE]

\* main has built the server and run has started the background task and
\* registered for the interrupt; it waits on <-ctx.Done(). Nothing has been
\* stored to the gate, the directory holds no uploaded file yet
Init ==
    /\ mainPc = "wait"
    /\ lsPc = "spawned"
    /\ sigCount = 0
    /\ healthy = 0
    /\ now = ClockBase
    /\ fs = [f \in Files |-> NoFile]
    /\ req = [r \in Req |-> IdleReq]
    /\ logLines = {}
    /\ stderrLines = {}
    /\ shutdownErr = None

(* ----------------------------- lifecycle ------------------------------ *)

\* the state of the lifecycle controller: Stopped once main has returned,
\* Listening while the listener serves, Draining while Shutdown runs,
\* Initializing before any of these
Lifecycle ==
    IF mainPc = "stopped" THEN "Stopped"
    ELSE IF lsPc = "serving" THEN "Listening"
    ELSE IF mainPc = "draining" THEN "Draining"
    ELSE "Initializing"

\* as ListenAndServe, but serving on a listener Shutdown knows nothing of
ListenAndServeUnchecked ==
    /\ lsPc = "spawned"
    /\ ~Exited
    /\ logLines' = logLines \cup {"listening on"}
    /\ \/ lsPc' = "serving" /\ UNCHANGED stderrLines
       \/ /\ lsPc' = "failed"
          /\ stderrLines' = stderrLines \cup {"error listening and serving"}
    /\ UNCHANGED <<mainPc, sigCount, healthy, now, fs, req, shutdownErr>>

\* run, the background task: log the address, then ListenAndServe, which
\* returns ErrServerClosed at once when Shutdown was already called, returns
\* the bind error when the address cannot be bound, and serves otherwise
ListenAndServe ==
    /\ lsPc = "spawned"
    /\ ~Exited
    /\ logLines' = logLines \cup {"listening on"}
    /\ IF ShuttingDown
       THEN lsPc' = "refused" /\ UNCHANGED stderrLines
       ELSE \/ lsPc' = "serving" /\ UNCHANGED stderrLines
            \/ /\ lsPc' = "failed"
               /\ stderrLines' = stderrLines \cup {"error listening and serving"}
    /\ UNCHANGED <<mainPc, sigCount, healthy, now, fs, req, shutdownErr>>

\* the operator's interrupt reaches the process (signal.NotifyContext is
\* registered, so the signal is delivered to the context, not the default
\* handler); the operator presses again only after the shutdown notice
Interrupt ==
    /\ ~Exited
    /\ sigCount < MaxSignals
    /\ sigCount = 0 \/ mainPc = "draining"
    /\ sigCount' = sigCount + 1
    /\ UNCHANGED <<mainPc, lsPc, healthy, now, fs, req, logLines, stderrLines,
                   shutdownErr>>

\* as ListenerAfterShutdown, but the listener is left open
ListenerLeftOpen(l) == l

\* httpServer.Shutdown closes the listener the background task serves on
ListenerAfterShutdown(l) == IF l = "serving" THEN "closed" ELSE l

\* as Quiescent, but without waiting for the active connections
QuiescentAlways == TRUE

\* httpServer.Shutdown's poll: no connection is active any more
Quiescent == \A r \in Req : ~InFlight(r)

\* as Shutdown, but run does not wait for the context to be done
ShutdownUnprompted ==
    /\ mainPc = "wait"
    /\ mainPc' = "draining"
    /\ logLines' = logLines \cup {"Shutting down gracefully"}
    /\ lsPc' = ListenerAfterShutdown(lsPc)
    /\ UNCHANGED <<sigCount, healthy, now, fs, req, stderrLines, shutdownErr>>

\* run: <-ctx.Done() returns, the notice is logged and Shutdown is called:
\* the server is marked shutting down and its listener is closed
Shutdown ==
    /\ mainPc = "wait"
    /\ sigCount >= 1
    /\ mainPc' = "draining"
    /\ logLines' = logLines \cup {"Shutting down gracefully"}
    /\ lsPc' = ListenerAfterShutdown(lsPc)
    /\ UNCHANGED <<sigCount, healthy, now, fs, req, stderrLines, shutdownErr>>

\* Shutdown's poll finds no active connection and returns nil; run logs the
\* final line and main returns
ShutdownDrained ==
    /\ mainPc = "draining"
    /\ Quiescent
    /\ shutdownErr' = "nil"
    /\ logLines' = logLines \cup {"Server shut down successfully"}
    /\ mainPc' = "stopped"
    /\ UNCHANGED <<lsPc, sigCount, healthy, now, fs, req, stderrLines>>

\* as ShutdownTimeout, but the shutdown error ends the process at once
ShutdownTimeoutFatal ==
    /\ mainPc = "draining"
    /\ \E r \in Req : InFlight(r)
    /\ shutdownErr' = "context deadline exceeded"
    /\ stderrLines' = stderrLines \cup {"error shutting down http server"}
    /\ mainPc' = "stopped"
    /\ UNCHANGED <<lsPc, sigCount, healthy, now, fs, req, logLines>>

\* the 10 s context of Shutdown expires while a connection is still active:
\* Shutdown returns the context's error, run reports it, logs the final line
\* and main returns, which ends every handler still running
ShutdownTimeout ==
    /\ mainPc = "draining"
    /\ \E r \in Req : InFlight(r)
    /\ shutdownErr' = "context deadline exceeded"
    /\ stderrLines' = stderrLines \cup {"error shutting down http server"}
    /\ logLines' = logLines \cup {"Server shut down successfully"}
    /\ mainPc' = "stopped"
    /\ UNCHANGED <<lsPc, sigCount, healthy, now, fs, req>>

(* ------------------------- request pipeline --------------------------- *)

\* what every request step leaves alone besides now and fs
KeepLifecycle ==
    UNCHANGED <<mainPc, lsPc, sigCount, healthy, logLines, stderrLines,
                shutdownErr>>

\* a handler writes its status and body and returns to the middleware that
\* called it
Respond(r, code, text) ==
    req' = [req EXCEPT ![r].status = code, ![r].body = text,
                       ![r].pc = HandlerReturn]

\* the serving listener accepts a connection and a request arrives on it;
\* requests are numbered in the order they are accepted. What the request
\* holds (header, path, method, body) is drawn where the code first reads it
Accept(r) ==
    /\ lsPc = "serving"
    /\ ~Exited
    /\ req[r].pc = "idle"
    /\ IF r = 1 THEN TRUE ELSE req[r - 1].pc # "idle"
    /\ req' = [req EXCEPT ![r].pc = Chain[1]]
    /\ UNCHANGED <<now, fs>>
    /\ KeepLifecycle

\* NewTracingMiddleware: adopt the inbound X-Request-Id or, when it is empty,
\* generate one from the clock; put it in the context and the response header
TracingMiddleware(r) ==
    /\ req[r].pc = "tracing"
    /\ ~Exited
    /\ \E h \in HeaderValues :
         \E t \in now..Min(now + 1, ClockBase + MaxTicks) :
           LET id == RequestID(h, t)
           IN /\ Len(h) = 0 \/ t = now
              /\ now' = t
              /\ req' = [req EXCEPT ![r].hdrIn = h,
                                    ![r].hasCtx = WithContext(id).has,
                                    ![r].ctxId = WithContext(id).id,
                                    ![r].hasRespId = TRUE, ![r].respId = id,
                                    ![r].pc = NextStage("tracing")]
    /\ UNCHANGED fs
    /\ KeepLifecycle

\* as LoggingEnter, but the record is written before the next handler is
\* called instead of being deferred
LoggingEnterLogsFirst(r) ==
    /\ req[r].pc = "logging"
    /\ ~Exited
    /\ req' = [req EXCEPT ![r].logHasCtx = req[r].hasCtx,
                          ![r].logCtxId = req[r].ctxId,
                          ![r].logged = @ + 1,
                          ![r].logId = IF req[r].hasCtx
                                       THEN req[r].ctxId ELSE Unknown,
                          ![r].pc = NextStage("logging")]
    /\ UNCHANGED <<now, fs>>
    /\ KeepLifecycle

\* NewLoggingMiddleware, entry: the deferred record is bound to the request
\* this middleware was called with, then the next handler is called
LoggingEnter(r) ==
    /\ req[r].pc = "logging"
    /\ ~Exited
    /\ req' = [req EXCEPT ![r].logHasCtx = req[r].hasCtx,
                          ![r].logCtxId = req[r].ctxId,
                          ![r].pc = NextStage("logging")]
    /\ UNCHANGED <<now, fs>>
    /\ KeepLifecycle

\* the ServeMux of addRoutes picks the handler for the request's path
Route(r) ==
    /\ req[r].pc = "mux"
    /\ ~Exited
    /\ \E p \in Paths, m \in Methods :
         req' = [req EXCEPT ![r].path = p, ![r].method = m,
                            ![r].pc = RouteOf(p)]
    /\ UNCHANGED <<now, fs>>
    /\ KeepLifecycle

\* ServeMux answers a path that is not clean with a redirect to the clean one
Redirect(r) ==
    /\ req[r].pc = "redirect"
    /\ ~Exited
    /\ Respond(r, StatusMovedPermanently, <<"Moved Permanently">>)
    /\ UNCHANGED <<now, fs>>
    /\ KeepLifecycle

\* http.NotFoundHandler
NotFound(r) ==
    /\ req[r].pc = "notfound"
    /\ ~Exited
    /\ Respond(r, StatusNotFound, <<"404 page not found">>)
    /\ UNCHANGED <<now, fs>>
    /\ KeepLifecycle

\* as healthzStatus, but any non-zero gate counts as healthy
healthzStatusNonZero(g) == IF g # 0 THEN StatusOK ELSE StatusServiceUnavailable

\* the status healthz writes when it loads gate value g
healthzStatus(g) == IF g = 1 THEN StatusOK ELSE StatusServiceUnavailable

\* healthz: load the gate, write the status, no body
healthz(r) ==
    /\ req[r].pc = "healthz"
    /\ ~Exited
    /\ Respond(r, healthzStatus(healthy), << >>)
    /\ UNCHANGED <<now, fs>>
    /\ KeepLifecycle

\* upload: the method check
uploadMethod(r) ==
    /\ req[r].pc = "upload"
    /\ ~Exited
    /\ IF ~MethodAllowed(req[r].method)
       THEN Respond(r, StatusMethodNotAllowed, <<"Method not allowed">>)
       ELSE req' = [req EXCEPT ![r].pc = "parse"]
    /\ UNCHANGED <<now, fs>>
    /\ KeepLifecycle

\* upload: r.ParseMultipartForm reads the whole body
uploadParse(r) ==
    /\ req[r].pc = "parse"
    /\ ~Exited
    /\ \E b \in Forms :
         IF b = "malformed"
         THEN req' = [req EXCEPT ![r].form = b, ![r].status = StatusBadRequest,
                                 ![r].body = <<"Could not parse multipart form">>,
                                 ![r].pc = HandlerReturn]
         ELSE req' = [req EXCEPT ![r].form = b, ![r].pc = "formfile"]
    /\ UNCHANGED <<now, fs>>
    /\ KeepLifecycle

\* upload: r.FormFile(formFileFieldName) yields the part's file name and
\* bytes, or fails when the form has no such field
uploadFormFile(r) ==
    /\ req[r].pc = "formfile"
    /\ ~Exited
    /\ IF ~FormFileFound(req[r].form)
       THEN Respond(r, StatusBadRequest, <<"Could not get file from form">>)
       ELSE \E f \in Files, n \in 0..MaxLen :
              LET others == {q \in Req \ {r} : InFlight(q) /\ req[q].fname = f}
              IN req' = [q \in Req |->
                          IF q = r
                          THEN [req[r] EXCEPT !.fname = f, !.len = n,
                                              !.overlap = (others # {}),
                                              !.pc = "create"]
                          ELSE IF q \in others
                          THEN [req[q] EXCEPT !.overlap = TRUE]
                          ELSE req[q]]
    /\ UNCHANGED <<now, fs>>
    /\ KeepLifecycle

\* as uploadCreate, but without the return after the error response: the
\* handler goes on to the copy
uploadCreateNoReturn(r) ==
    /\ req[r].pc = "create"
    /\ ~Exited
    /\ \/ /\ fs' = Create(fs, req[r].fname)
          /\ req' = [req EXCEPT ![r].off = 0, ![r].pc = "copy"]
       \/ /\ req' = [req EXCEPT ![r].status = StatusInternalServerError,
                                ![r].body = <<"Could not create file on disk">>,
                                ![r].off = 0, ![r].pc = "copy"]
          /\ UNCHANGED fs
    /\ UNCHANGED now
    /\ KeepLifecycle

\* upload: os.Create(filepath.Join(baseDir, handler.Filename)) truncates or
\* creates the destination, or fails
uploadCreate(r) ==
    /\ req[r].pc = "create"
    /\ ~Exited
    /\ \/ /\ fs' = Create(fs, req[r].fname)
          /\ req' = [req EXCEPT ![r].off = 0, ![r].pc = "copy"]
       \/ /\ Respond(r, StatusInternalServerError,
                     <<"Could not create file on disk">>)
          /\ UNCHANGED fs
    /\ UNCHANGED now
    /\ KeepLifecycle

\* upload: io.Copy(dst, file), one Write per step through dst's own offset;
\* a Write may fail; after the last byte the confirmation is written
uploadCopy(r) ==
    /\ req[r].pc = "copy"
    /\ ~Exited
    /\ LET f == req[r].fname
           p == Payload(r, req[r].len)
           c == Chunk(p, req[r].off)
       IN IF req[r].off < req[r].len
          THEN \/ /\ fs' = [fs EXCEPT ![f].data = WriteAt(@, req[r].off, c)]
                  /\ req' = [req EXCEPT ![r].off = @ + Len(c)]
               \/ /\ Respond(r, StatusInternalServerError,
                             <<"Could not save file">>)
                  /\ UNCHANGED fs
          ELSE /\ Respond(r, StatusOK, <<"File uploaded successfully: ", f>>)
               /\ UNCHANGED fs
    /\ UNCHANGED now
    /\ KeepLifecycle

\* NewLoggingMiddleware, the deferred function: one access-log record with
\* the id found in the context of the request the middleware was called with
LoggingExit(r) ==
    /\ req[r].pc = "logexit"
    /\ ~Exited
    /\ req' = [req EXCEPT ![r].logged = @ + 1,
                          ![r].logId = IF req[r].logHasCtx
                                       THEN req[r].logCtxId ELSE Unknown,
                          ![r].pc = AfterExit("logging")]
    /\ UNCHANGED <<now, fs>>
    /\ KeepLifecycle

\* NewTracingMiddleware: next.ServeHTTP has returned and so does the
\* middleware
TracingExit(r) ==
    /\ req[r].pc = "traceexit"
    /\ ~Exited
    /\ req' = [req EXCEPT ![r].pc = AfterExit("tracing")]
    /\ UNCHANGED <<now, fs>>
    /\ KeepLifecycle

\* the outermost handler has returned: the server flushes the response to
\* the client and the connection leaves StateActive
Finish(r) ==
    /\ req[r].pc = "finish"
    /\ ~Exited
    /\ req' = [req EXCEPT ![r].pc = "done"]
    /\ UNCHANGED <<now, fs>>
    /\ KeepLifecycle

\* the steps of a request once it is accepted
Serve(r) ==
    \/ TracingMiddleware(r)
    \/ LoggingEnter(r)
    \/ Route(r)
    \/ Redirect(r)
    \/ NotFound(r)
    \/ healthz(r)
    \/ uploadMethod(r)
    \/ uploadParse(r)
    \/ uploadFormFile(r)
    \/ uploadCreate(r)
    \/ uploadCopy(r)
    \/ LoggingExit(r)
    \/ TracingExit(r)
    \/ Finish(r)

Next ==
    \/ ListenAndServe
    \/ Interrupt
    \/ Shutdown
    \/ ShutdownDrained
    \/ ShutdownTimeout
    \/ \E r \in Req : Accept(r)
    \/ \E r \in Req : Serve(r)

Spec == Init /\ [][Next]_vars

\* values the int32 gate may hold
GateValues == {0, 1, 2}

\* healthz as a function of the gate: the same program started with the gate
\* holding any of GateValues
InitGate ==
    /\ healthy \in GateValues
    /\ mainPc = "wait"
    /\ lsPc = "spawned"
    /\ sigCount = 0
    /\ now = ClockBase
    /\ fs = [f \in Files |-> NoFile]
    /\ req = [r \in Req |-> IdleReq]
    /\ logLines = {}
    /\ stderrLines = {}
    /\ shutdownErr = None

SpecGate == InitGate /\ [][Next]_vars

\* the scheduler runs every started task and the 10 s timer fires; only the
\* operator's interrupt and the clients' requests may never come (every
\* request has finitely many steps, so fairness of the handler tasks together
\* lets each of them finish)
FairSpec ==
    /\ Spec
    /\ WF_vars(ListenAndServe)
    /\ WF_vars(Shutdown)
    /\ WF_vars(ShutdownDrained \/ ShutdownTimeout)
    /\ WF_vars(\E r \in Req : Serve(r))

(* ------------------------------ claims -------------------------------- *)

FinalLine == "Server shut down successfully"

\* the step in which request r's response is delivered
Delivered(r) == req[r].pc = "finish" /\ req'[r].pc = "done"

\* a step taken by request r itself
StepOf(r) == req'[r].pc # req[r].pc

\* C1: when the 200 response of an upload that no other upload of the same
\* file name overlapped is delivered, the directory holds a file of that name
\* whose content is exactly the submitted bytes (none for an empty payload),
\* and the response body names the file.
UploadRoundTrip ==
    [][\A r \in Req :
         (Delivered(r) /\ req[r].path = UploadEndpoint
          /\ req[r].status = StatusOK /\ ~req[r].overlap)
         => LET f == req[r].fname
            IN /\ fs'[f].exists
               /\ fs'[f].data = Payload(r, req[r].len)
               /\ Len(fs'[f].data) = req[r].len
               /\ req[r].body = <<"File uploaded successfully: ", f>>]_vars

\* two uploads answered 200 without overlap, one empty and one of MaxLen
\* bytes, each stored under its own name
UploadRoundTripWitness ==
    \E r, q \in Req :
        /\ r # q
        /\ req[r].pc = "done" /\ req[q].pc = "done"
        /\ req[r].status = StatusOK /\ req[q].status = StatusOK
        /\ req[r].path = UploadEndpoint /\ req[q].path = UploadEndpoint
        /\ ~req[r].overlap /\ ~req[q].overlap
        /\ req[r].fname # req[q].fname
        /\ req[r].len = 0 /\ req[q].len = MaxLen
        /\ fs[req[r].fname] = [exists |-> TRUE, data |-> << >>]
        /\ fs[req[q].fname].data = Payload(q, MaxLen)

\* C2: when two uploads of the same file name have both been answered 200,
\* the file holds one of the two payloads in full.
ConcurrentUploadsKeepOnePayload ==
    \A r, q \in Req :
        (/\ r # q
         /\ req[r].pc = "done" /\ req[q].pc = "done"
         /\ req[r].path = UploadEndpoint /\ req[q].path = UploadEndpoint
         /\ req[r].status = StatusOK /\ req[q].status = StatusOK
         /\ req[r].fname = req[q].fname)
        => fs[req[r].fname].data \in
             {Payload(r, req[r].len), Payload(q, req[q].len)}

\* C3: every response, whatever its status, carries a non-empty X-Request-Id:
\* the inbound value when the request supplied one, a generated decimal
\* clock reading otherwise.
RequestIdOnEveryResponse ==
    \A r \in Req :
        req[r].status # 0 =>
            /\ req[r].hasRespId
            /\ Len(req[r].respId) > 0
            /\ IF Len(req[r].hdrIn) > 0
               THEN req[r].respId = req[r].hdrIn
               ELSE \E t \in ClockBase..(ClockBase + MaxTicks) :
                        req[r].respId = FormatInt(t)

\* a 404 answered with the caller's id and a 500 answered with a generated
\* two-digit id
RequestIdWitness ==
    \E r, q \in Req :
        /\ req[r].pc = "done" /\ req[q].pc = "done"
        /\ req[r].status = StatusNotFound
        /\ Len(req[r].hdrIn) > 0 /\ req[r].respId = req[r].hdrIn
        /\ req[q].status = StatusInternalServerError
        /\ Len(req[q].hdrIn) = 0 /\ Len(req[q].respId) = 2

\* C4: no step of a request to the upload path whose method is not POST
\* changes the directory, and the only status it is given is 405.
WrongMethodNoEffect ==
    [][\A r \in Req :
         (StepOf(r) /\ req'[r].path = UploadEndpoint
          /\ req'[r].method # "POST")
         => /\ fs' = fs
            /\ req'[r].status \in {0, StatusMethodNotAllowed}
            /\ req'[r].pc \in Returned
                 => req'[r].status = StatusMethodNotAllowed]_vars

\* a GET to the upload path answered 405 while an uploaded file of MaxLen
\* bytes sits in the directory
WrongMethodWitness ==
    \E r \in Req :
        /\ req[r].pc = "done"
        /\ req[r].path = UploadEndpoint /\ req[r].method = "GET"
        /\ req[r].status = StatusMethodNotAllowed
        /\ \E f \in Files : fs[f].exists /\ Len(fs[f].data) = MaxLen

\* C5: no step of a POST to the upload path whose body is not multipart, or
\* is multipart without the configured field, changes the directory, and the
\* only status it is given is 400.
ClientInputErrorNoEffect ==
    [][\A r \in Req :
         (StepOf(r) /\ req'[r].path = UploadEndpoint
          /\ req'[r].method = "POST"
          /\ req'[r].form \in {"malformed", "nofield"})
         => /\ fs' = fs
            /\ req'[r].status \in {0, StatusBadRequest}
            /\ req'[r].pc \in Returned
                 => req'[r].status = StatusBadRequest]_vars

\* a form without the field and a body that is not multipart, both answered
\* 400, no file in the directory
ClientInputErrorWitness ==
    \E r, q \in Req :
        /\ req[r].pc = "done" /\ req[q].pc = "done"
        /\ req[r].form = "nofield" /\ req[q].form = "malformed"
        /\ req[r].status = StatusBadRequest
        /\ req[q].status = StatusBadRequest
        /\ \A f \in Files : fs[f] = NoFile

\* C6: a request to /healthz, of any method, is answered 200 exactly when the
\* gate holds 1 and 503 otherwise.
HealthReflectsGate ==
    \A r \in Req :
        (req[r].path = HealthPath /\ req[r].status # 0)
        => req[r].status = IF healthy = 1 THEN 200 ELSE 503

\* with the gate at 1, a GET and then a POST to /healthz both got 200
HealthWitness ==
    \E r, q \in Req :
        /\ healthy = 1
        /\ req[r].pc = "done" /\ req[q].pc = "done"
        /\ req[r].path = HealthPath /\ req[q].path = HealthPath
        /\ req[r].method = "GET" /\ req[q].method = "POST"
        /\ req[r].status = StatusOK /\ req[q].status = StatusOK

\* C7: once the listener is serving, the gate is eventually set to healthy.
GateSetOnceListening == (lsPc = "serving") ~> (healthy = 1)

\* C8: the process reaches Stopped with a request still being handled only
\* when the drain ceiling has elapsed; a Shutdown that returned nil left
\* every accepted request delivered.
InFlightDrainsBeforeStop ==
    /\ (mainPc = "stopped" /\ \E r \in Req : InFlight(r))
         => shutdownErr = "context deadline exceeded"
    /\ shutdownErr = "nil" => \A r \in Req : req[r].pc \in {"idle", "done"}

\* Shutdown has been called and is still waiting while an upload accepted
\* before it has run to its 200 and is about to be delivered
InFlightDrainsWitness ==
    /\ mainPc = "draining"
    /\ \E r \in Req :
        /\ req[r].pc = "finish"
        /\ req[r].path = UploadEndpoint
        /\ req[r].status = StatusOK

\* C9: once Shutdown has been called no request is accepted any more, also
\* when the listener task only starts after it.
NoAcceptAfterDraining ==
    [][ShuttingDown =>
         \A r \in Req : req[r].pc = "idle" => req'[r].pc = "idle"]_vars

\* the listener task started after Shutdown was called, was refused, and
\* the process stopped without ever having accepted a request
LateListenerWitness ==
    /\ lsPc = "refused"
    /\ mainPc = "stopped"
    /\ \A r \in Req : req[r].pc = "idle"

\* C10: after the interrupt the process eventually stops having logged the
\* final line, with or without the ceiling exceeded; a shutdown error is
\* written to stderr and does not keep the final line from being logged.
ShutdownCompletes ==
    /\ (sigCount >= 1) ~> (mainPc = "stopped" /\ FinalLine \in logLines)
    /\ [](mainPc = "stopped" =>
            /\ FinalLine \in logLines
            /\ shutdownErr = "context deadline exceeded"
                 => "error shutting down http server" \in stderrLines)

\* stopped after the ceiling was exceeded: error reported, final line logged
ShutdownCompletesWitness ==
    /\ mainPc = "stopped"
    /\ shutdownErr = "context deadline exceeded"
    /\ "error shutting down http server" \in stderrLines
    /\ FinalLine \in logLines
    /\ \E r \in Req : InFlight(r)

\* C11: once binding the listen address has failed, the process is never
\* in Draining nor normally Stopped: the failure ended it.
BindFailureIsFatal ==
    lsPc = "failed" => mainPc \notin {"draining", "stopped"}

Rank(l) ==
    IF l = "Initializing" THEN 0
    ELSE IF l = "Listening" THEN 1
    ELSE IF l = "Draining" THEN 2
    ELSE 3

\* C12, as stated: the lifecycle changes only by Initializing -> Listening,
\* Listening -> Draining and Draining -> Stopped.
LifecycleOnlyThroughListening ==
    [][Lifecycle' # Lifecycle =>
         <<Lifecycle, Lifecycle'>> \in {<<"Initializing", "Listening">>,
                                        <<"Listening", "Draining">>,
                                        <<"Draining", "Stopped">>}]_vars

\* C12, amended: the lifecycle only moves forward in the order Initializing,
\* Listening, Draining, Stopped, where Listening is skipped when the
\* interrupt comes before the listener serves or the bind fails; it never
\* returns to Listening or any earlier state, Stopped is reached only from
\* Draining, and nothing changes once Stopped.
LifecycleOneShot ==
    [][/\ Rank(Lifecycle') >= Rank(Lifecycle)
       /\ Lifecycle' # Lifecycle =>
            <<Lifecycle, Lifecycle'>> \in {<<"Initializing", "Listening">>,
                                           <<"Initializing", "Draining">>,
                                           <<"Listening", "Draining">>,
                                           <<"Draining", "Stopped">>}
       /\ Lifecycle = "Stopped" => UNCHANGED vars]_vars

\* stopped after having drained without the listener ever having served:
\* the interrupt came first and the listener task was refused
LifecycleOneShotWitness ==
    /\ Lifecycle = "Stopped"
    /\ lsPc = "refused"
    /\ "Shutting down gracefully" \in logLines
    /\ FinalLine \in logLines

\* the stages of the router's handlers
HandlerStages == {"redirect", "notfound", "healthz", "upload", "parse",
                  "formfile", "create", "copy"}

\* C13, as stated: the logging middleware is entered first and exits last.
LoggingOutermost ==
    [][\A r \in Req :
         /\ (req[r].pc = "idle" /\ req'[r].pc # "idle")
              => req'[r].pc = "logging"
         /\ (req[r].pc # "finish" /\ req'[r].pc = "finish")
              => req[r].pc = "logexit"]_vars

\* C13, amended: the tracing middleware is the outermost wrapper, the
\* logging middleware is inside it and the router innermost: every request
\* enters tracing first, then logging, then the router, and on the way out
\* logging writes its record before tracing returns to the server.
TracingOutermost ==
    [][\A r \in Req :
         StepOf(r) =>
           /\ req[r].pc = "idle" => req'[r].pc = "tracing"
           /\ req'[r].pc = "logging" => req[r].pc = "tracing"
           /\ req'[r].pc = "mux" => req[r].pc = "logging"
           /\ req[r].pc = "mux" => req'[r].pc \in HandlerStages
           /\ req'[r].pc = "logexit" => req[r].pc \in HandlerStages
           /\ req[r].pc = "logexit" => req'[r].pc = "traceexit"
           /\ req'[r].pc = "traceexit" => req[r].pc = "logexit"
           /\ req'[r].pc = "finish" => req[r].pc = "traceexit"]_vars

\* an upload answered 200 whose access record is written while the tracing
\* middleware has not returned yet
TracingOutermostWitness ==
    \E r \in Req :
        /\ req[r].pc = "traceexit"
        /\ req[r].logged = 1
        /\ req[r].path = UploadEndpoint
        /\ req[r].status = StatusOK

\* C14: any two requests are assigned different identifiers.
RequestIdsUnique ==
    \A r, q \in Req :
        (r # q /\ req[r].hasRespId /\ req[q].hasRespId)
        => req[r].respId # req[q].respId

\* C15, as stated: every request whose path is neither the health path nor
\* the upload path is answered 404.
UnregisteredPathsNotFound ==
    \A r \in Req :
        (req[r].path \notin {None, HealthPath, UploadEndpoint}
         /\ req[r].status # 0)
        => req[r].status = StatusNotFound

\* C15, amended: a request whose path is neither the health path nor the
\* upload path is answered 404 by the not-found responder when the path is
\* in canonical form (the root included) and 301 by the router when it is
\* not; it never reaches the health or upload handler and none of its steps
\* changes the directory.
UnregisteredPathsAnswer ==
    [][\A r \in Req :
         (StepOf(r)
          /\ req'[r].path \notin {None, HealthPath, UploadEndpoint})
         => LET canonical == req'[r].path = "/"
                code == IF canonical THEN StatusNotFound
                        ELSE StatusMovedPermanently
            IN /\ fs' = fs
               /\ req'[r].pc \in {IF canonical THEN "notfound" ELSE "redirect"}
                                   \cup Returned
               /\ req'[r].status \in {0, code}
               /\ req'[r].pc \in Returned =>
                    /\ req'[r].status = code
                    /\ canonical => req'[r].body = <<"404 page not found">>]_vars

\* the root answered 404 and a path with a doubled slash answered 301
UnregisteredPathsWitness ==
    \E r, q \in Req :
        /\ req[r].pc = "done" /\ req[q].pc = "done"
        /\ req[r].path = "/" /\ req[r].status = StatusNotFound
        /\ req[q].path = "//healthz"
        /\ req[q].status = StatusMovedPermanently

\* C16: a second interrupt received while draining ends the process at
\* once: no state has two interrupts delivered and the drain still waiting.
SecondInterruptForces ==
    sigCount >= 2 => mainPc # "draining"

LogIdIsResponseId ==
    \A r \in Req :
        req[r].logged >= 1 =>
            /\ req[r].hasRespId
            /\ req[r].logId = req[r].respId
            /\ req[r].logId # Unknown

\* two requests in flight together, one with a supplied id and one with a
\* generated id, each logged under its own id
LogIdWitness ==
    \E r, q \in Req :
        /\ req[r].pc = "traceexit" /\ req[q].pc = "traceexit"
        /\ Len(req[r].hdrIn) > 0 /\ Len(req[q].hdrIn) = 0
        /\ req[r].logId = req[r].hdrIn
        /\ req[q].logId = req[q].respId
        /\ req[r].logId # req[q].logId

UploadStages == {"upload", "parse", "formfile", "create", "copy"}

\* the status the upload handler answers with when the given step fails
FailStatus(stage) ==
    IF stage = "upload" THEN StatusMethodNotAllowed
    ELSE IF stage \in {"parse", "formfile"} THEN StatusBadRequest
    ELSE StatusInternalServerError

\* C19: an upload runs method check, parse, field extraction, create, copy in
\* that order; every step of it either moves to the next step with no
\* response written, or writes the one response and returns: the step's own
\* failure status, or 200 from the copy once every byte is written. After the
\* response no upload step runs and the response does not change.
UploadFirstFailureTerminal ==
    [][\A r \in Req :
        LET a == req[r].pc
            b == req'[r].pc
        IN /\ (a \in UploadStages /\ (b # a \/ req'[r].off # req[r].off)) =>
                /\ req[r].status = 0
                /\ \/ /\ <<a, b>> \in {<<"upload", "parse">>,
                                      <<"parse", "formfile">>,
                                      <<"formfile", "create">>,
                                      <<"create", "copy">>}
                      /\ req'[r].status = 0
                   \/ /\ a = "copy" /\ b = "copy"
                      /\ req'[r].off > req[r].off
                      /\ req'[r].status = 0
                   \/ /\ b = HandlerReturn
                      /\ req'[r].status = FailStatus(a)
                      /\ req'[r].off = req[r].off
                      /\ fs' = fs
                      /\ a = "copy" => req[r].off < req[r].len
                   \/ /\ a = "copy" /\ b = HandlerReturn
                      /\ req[r].off = req[r].len
                      /\ req'[r].status = StatusOK
                      /\ fs' = fs
           /\ (b \in UploadStages /\ b # a) =>
                a \in UploadStages \/ (a = "mux" /\ b = "upload")
           /\ a \in Returned =>
                /\ b \in Returned
                /\ req'[r].status = req[r].status
                /\ req'[r].body = req[r].body
                /\ req'[r].off = req[r].off]_vars

\* one upload refused at the method check and one that passed all five steps
UploadFirstFailureWitness ==
    \E r, q \in Req :
        /\ req[r].pc = "done" /\ req[q].pc = "done"
        /\ req[r].path = UploadEndpoint /\ req[q].path = UploadEndpoint
        /\ req[r].status = StatusMethodNotAllowed /\ req[r].form = None
        /\ req[q].status = StatusOK
        /\ req[q].len > 0 /\ req[q].off = req[q].len

\* C20: when the copy of an upload of F fails partway, the response is 500
\* and F is left in place holding a strict prefix of the submitted payload.
PartialWriteIsPrefix ==
    [][\A r \in Req :
        (req[r].pc = "copy" /\ req'[r].pc = HandlerReturn
            /\ req[r].off < req[r].len) =>
          /\ req'[r].status = StatusInternalServerError
          /\ fs'[req[r].fname].exists
          /\ fs'[req[r].fname].data
               = SubSeq(Payload(r, req[r].len), 1, req[r].off)]_vars

\* the statement of C20 for an upload that no other upload of the same name
\* overlapped
PartialWriteIsPrefixAlone ==
    [][\A r \in Req :
        (req[r].pc = "copy" /\ req'[r].pc = HandlerReturn
            /\ req[r].off < req[r].len /\ ~req[r].overlap) =>
          /\ req'[r].status = StatusInternalServerError
          /\ fs'[req[r].fname].exists
          /\ fs'[req[r].fname].data
               = SubSeq(Payload(r, req[r].len), 1, req[r].off)]_vars

\* C21: Shutdown is called only after an interrupt was received: the main
\* path leaves its wait, and the lifecycle leaves Listening, only by the step
\* that calls Shutdown with an interrupt delivered; a step of the listener
\* task (a listen error included), of a request or of the clock leaves the
\* main path waiting.
DrainingOnlyOnInterrupt ==
    [][/\ mainPc' # mainPc => sigCount >= 1
       /\ (Lifecycle = "Listening" /\ Lifecycle' # "Listening") =>
            /\ sigCount >= 1
            /\ mainPc = "wait" /\ mainPc' = "draining"
            /\ Lifecycle' = "Draining"
       /\ (/\ mainPc = "wait"
           /\ \/ lsPc' \in {"serving", "failed", "refused"} \ {lsPc}
              \/ req' # req
              \/ now' # now
              \/ stderrLines' # stderrLines) =>
            mainPc' = "wait"]_vars

\* the server drains after one interrupt, with one request already answered
\* and another still in flight, while having served through a request error
DrainingOnlyOnInterruptWitness ==
    /\ Lifecycle = "Draining"
    /\ sigCount = 1
    /\ lsPc = "closed"
    /\ \E r, q \in Req :
        /\ req[r].pc = "done" /\ req[r].status = StatusInternalServerError
        /\ InFlight(q)

\* C22: once an interrupt has been received while the listener task has not
\* yet started serving, the task never serves and reports no listen error, no
\* request is handled, and the main path reaches Stopped.
SignalBeforeListenerNeverServes ==
    /\ [][(sigCount >= 1 /\ lsPc = "spawned") =>
            /\ lsPc' \in {"spawned", "refused"}
            /\ "error listening and serving" \notin stderrLines'
            /\ req' = req]_vars
    /\ (sigCount >= 1 /\ lsPc = "spawned") ~> (mainPc = "stopped")

\* C22, with Shutdown called before the listener task calls ListenAndServe:
\* the task, when it runs, returns without serving and without a listen
\* error, no request is handled, and the main path reaches Stopped.
ShutdownBeforeListenerNeverServes ==
    /\ [][/\ (mainPc \in {"draining", "stopped"} /\ lsPc = "spawned") =>
               /\ lsPc' \in {"spawned", "refused"}
               /\ req' = req
          /\ lsPc' = "refused" =>
               /\ mainPc \in {"draining", "stopped"}
               /\ "error listening and serving" \notin stderrLines'
               /\ "listening on" \in logLines'
               /\ \A r \in Req : req'[r].pc = "idle"]_vars
    /\ (mainPc = "draining" /\ lsPc = "spawned")
         ~> (mainPc = "stopped" /\ lsPc \in {"spawned", "refused"}
                                /\ FinalLine \in logLines)

\* the listener task ran while Shutdown was waiting and was turned away
ShutdownBeforeListenerWitness ==
    /\ mainPc = "draining"
    /\ lsPc = "refused"
    /\ sigCount = 1
    /\ "listening on" \in logLines
    /\ stderrLines = {}
    /\ \A r \in Req : req[r].pc = "idle"

====
